---- MODULE Spec2Model ----
(***************************************************************************)
(* Model of the PCA notebook (src/pca.ipynb): the StandardScaler object    *)
(* `ss`, the PCA object `pca`, and the "PCA by hand" cells that build      *)
(* cov_mat, eigvals/eigvecs and pcabh.                                     *)
(*                                                                         *)
(* Arithmetic is exact.  A number is (p/q)*sqrt(f) with f squarefree, kept *)
(* in canonical form, so that equal values are equal records.  q = 0 is    *)
(* NaN (0/0, or a value outside this number system).  Frames have two      *)
(* feature columns; the eigenproblem of a symmetric 2x2 matrix is solved   *)
(* in closed form, as the notebook derives it.                             *)
(*                                                                         *)
(* Operators bind their arguments once, as x \in {x0}, and The picks the   *)
(* one value of the resulting singleton: every argument is evaluated once. *)
(***************************************************************************)
EXTENDS Integers, Sequences, FiniteSets, TLC

\* ---------------------------------------------------------------- bounds
\* Largest raw feature value of a record of cars.csv (values are 0..MaxVal).
MaxVal == 1
\* Largest number of records of cars.csv (at least 3: two train, one test;
\* with 5 records the test frame has two).
MaxRows == 5

\* ------------------------------------------------------------ arithmetic
The(S) == CHOOSE r \in S : TRUE

Abs(i0) == The({IF i < 0 THEN -i ELSE i : i \in {i0}})
Sgn(i0) == The({IF i < 0 THEN -1 ELSE IF i = 0 THEN 0 ELSE 1 : i \in {i0}})

RECURSIVE GCD(_, _)
GCD(a0, b0) ==
  The({IF b = 0 THEN a ELSE GCD(b, a % b) : a \in {a0}, b \in {b0}})

\* largest m with m*m dividing n (n >= 1), searched upwards from m0
RECURSIVE SqPartFrom(_, _, _)
SqPartFrom(n0, m0, best0) ==
  The({IF m * m > n THEN best
       ELSE SqPartFrom(n, m + 1, IF n % (m * m) = 0 THEN m ELSE best)
       : n \in {n0}, m \in {m0}, best \in {best0}})
SqPart(n) == SqPartFrom(n, 1, 1)

NaN == [p |-> 0, q |-> 0, f |-> 1]
Zero == [p |-> 0, q |-> 1, f |-> 1]
IsNaN(x) == x.q = 0

\* (p/q)*sqrt(f) with the square factor s of f taken out and p*s/q reduced
Reduced(p, q, f, s) ==
  The({[p |-> (p * s) \div g, q |-> q \div g, f |-> f \div (s * s)]
       : g \in {GCD(Abs(p * s), q)}})

\* canonical form of (p/q)*sqrt(f), q > 0, f > 0
Mk(p0, q0, f0) ==
  The({IF p = 0 THEN Zero
       ELSE The({Reduced(p, q, f, s) : s \in {IF f = 1 THEN 1 ELSE SqPart(f)}})
       : p \in {p0}, q \in {q0}, f \in {f0}})

FromInt(i) == [p |-> i, q |-> 1, f |-> 1]
One == FromInt(1)

Neg(x0) == The({[x EXCEPT !.p = -x.p] : x \in {x0}})
Mul(x0, y0) ==
  The({IF IsNaN(x) \/ IsNaN(y) THEN NaN
       ELSE Mk(x.p * y.p, x.q * y.q, x.f * y.f)
       : x \in {x0}, y \in {y0}})
Inv(y0) ==
  The({IF IsNaN(y) \/ y.p = 0 THEN NaN
       ELSE Mk(Sgn(y.p) * y.q, Abs(y.p) * y.f, y.f)
       : y \in {y0}})
Div(x, y) == Mul(x, Inv(y))
\* a sum of two different radicals is outside the number system
Add(x0, y0) ==
  The({IF IsNaN(x) \/ IsNaN(y) THEN NaN
       ELSE IF x.p = 0 THEN y
       ELSE IF y.p = 0 THEN x
       ELSE IF x.f # y.f THEN NaN
       ELSE Mk(x.p * y.q + y.p * x.q, x.q * y.q, x.f)
       : x \in {x0}, y \in {y0}})
Sub(x, y) == Add(x, Neg(y))
\* square root of a non-negative rational
Sqrt(x0) ==
  The({IF IsNaN(x) \/ x.f # 1 \/ x.p < 0 THEN NaN
       ELSE IF x.p = 0 THEN Zero
       ELSE Mk(1, x.q, x.p * x.q)
       : x \in {x0}})
\* x < y, compared through the signs and the squares
Less(x0, y0) ==
  The({IF Sgn(x.p) # Sgn(y.p) THEN Sgn(x.p) < Sgn(y.p)
       ELSE IF x.p > 0
            THEN x.p * x.p * x.f * y.q * y.q < y.p * y.p * y.f * x.q * x.q
       ELSE IF x.p < 0
            THEN y.p * y.p * y.f * x.q * x.q < x.p * x.p * x.f * y.q * y.q
       ELSE FALSE
       : x \in {x0}, y \in {y0}})
AbsN(x0) == The({[x EXCEPT !.p = Abs(x.p)] : x \in {x0}})

RECURSIVE SumSeq(_)
SumSeq(s0) ==
  The({IF s = <<>> THEN Zero ELSE Add(Head(s), SumSeq(Tail(s))) : s \in {s0}})

\* ---------------------------------------------------------------- frames
\* the two feature columns
Cols == {1, 2}
Col(X0, j0) == The({[r \in 1..Len(X) |-> X[r][j]] : X \in {X0}, j \in {j0}})
Dot(u0, v0) ==
  The({SumSeq([i \in 1..Len(u) |-> Mul(u[i], v[i])]) : u \in {u0}, v \in {v0}})
\* Series.map(float)
map_float(df0) ==
  The({[r \in 1..Len(df) |-> [j \in 1..Len(df[r]) |-> FromInt(df[r][j])]]
       : df \in {df0}})

\* sklearn.utils.check_array: a frame with no record is rejected (ValueError)
check_array(X) == Len(X) >= 1

np_mean(X0, j0) ==
  The({Div(SumSeq(Col(X, j)), FromInt(Len(X))) : X \in {X0}, j \in {j0}})
\* the deviations of column j from its mean
Deviations(X0, j0) ==
  The({The({[r \in 1..Len(X) |-> Sub(X[r][j], m)] : m \in {np_mean(X, j)}})
       : X \in {X0}, j \in {j0}})
\* np.var / np.cov diagonal: sum of squared deviations over (n - ddof)
np_var(X0, j0, ddof) ==
  The({The({Div(Dot(dev, dev), FromInt(Len(X) - ddof))
            : dev \in {Deviations(X, j)}})
       : X \in {X0}, j \in {j0}})

\* ------------------------------------------------- StandardScaler (ss)
Unfitted ==
  [fitted |-> FALSE, mean_ |-> <<>>, var_ |-> <<>>, scale_ |-> <<>>,
   n_samples_seen_ |-> 0]

\* StandardScaler() learns the population variance (divisor n)
ScalerDdof == 0

\* _handle_zeros_in_scale: a zero scale is replaced by 1
handle_zeros_in_scale(s0) == The({IF s = Zero THEN One ELSE s : s \in {s0}})

StandardScaler_partial_fit(X0) ==
  The({The({[fitted |-> TRUE,
             mean_ |-> [j \in Cols |-> np_mean(X, j)],
             var_ |-> var,
             scale_ |-> [j \in Cols |-> handle_zeros_in_scale(Sqrt(var[j]))],
             n_samples_seen_ |-> Len(X)]
            : var \in {[j \in Cols |-> np_var(X, j, ScalerDdof)]}})
       : X \in {X0}})

\* fit: self._reset(), then partial_fit, whose check_array may raise
StandardScaler_fit(self, X0) ==
  The({IF check_array(X)
       THEN [self |-> StandardScaler_partial_fit(X), err |-> ""]
       ELSE [self |-> Unfitted, err |-> "ValueError"]
       : X \in {X0}})

\* the values transform computes from a fitted state
StandardScaler_scaled(self0, X0) ==
  The({[r \in 1..Len(X) |->
          [j \in Cols |-> Div(Sub(X[r][j], self.mean_[j]), self.scale_[j])]]
       : self \in {self0}, X \in {X0}})

\* as StandardScaler_transform, but standardizing with the statistics of X
StandardScaler_transform_refit(self0, X0) ==
  The({IF ~self.fitted
       THEN [self |-> self, ret |-> <<>>, err |-> "NotFittedError"]
       ELSE IF ~check_array(X)
       THEN [self |-> self, ret |-> <<>>, err |-> "ValueError"]
       ELSE [self |-> self,
             ret |-> StandardScaler_scaled(StandardScaler_partial_fit(X), X),
             err |-> ""]
       : self \in {self0}, X \in {X0}})

\* as StandardScaler_transform, but without check_is_fitted: an unfitted
\* scaler passes the frame through
StandardScaler_transform_unchecked(self0, X0) ==
  The({IF ~check_array(X)
       THEN [self |-> self, ret |-> <<>>, err |-> "ValueError"]
       ELSE IF ~self.fitted THEN [self |-> self, ret |-> X, err |-> ""]
       ELSE [self |-> self, ret |-> StandardScaler_scaled(self, X), err |-> ""]
       : self \in {self0}, X \in {X0}})

\* transform: check_is_fitted, check_array, (X - mean_) / scale_; self is
\* only read
StandardScaler_transform(self0, X0) ==
  The({IF ~self.fitted
       THEN [self |-> self, ret |-> <<>>, err |-> "NotFittedError"]
       ELSE IF ~check_array(X)
       THEN [self |-> self, ret |-> <<>>, err |-> "ValueError"]
       ELSE [self |-> self, ret |-> StandardScaler_scaled(self, X), err |-> ""]
       : self \in {self0}, X \in {X0}})

\* TransformerMixin.fit_transform: self.fit(X).transform(X)
StandardScaler_fit_transform(self0, X0) ==
  The({The({IF f.err # "" THEN [self |-> f.self, ret |-> <<>>, err |-> f.err]
            ELSE StandardScaler_transform(f.self, X)
            : f \in {StandardScaler_fit(self0, X)}})
       : X \in {X0}})

\* ------------------------------------------------------ linear algebra
Min(a, b) == IF a < b THEN a ELSE b
Half(x) == Div(x, FromInt(2))
Scale(c0, v0) ==
  The({[i \in 1..Len(v) |-> Mul(c, v[i])] : c \in {c0}, v \in {v0}})

\* as Normalize, but leaving the vector at its length
Normalize_skipped(v0) == v0

\* v / ||v||
Normalize(v0) ==
  The({The({[i \in 1..Len(v) |-> Div(v[i], nrm)] : nrm \in {Sqrt(Dot(v, v))}})
       : v \in {v0}})

\* X^T X of a two-column frame, as <<a, b, c>> for [[a, b], [b, c]]
Gram(X0) ==
  The({<<Dot(Col(X, 1), Col(X, 1)), Dot(Col(X, 1), Col(X, 2)),
         Dot(Col(X, 2), Col(X, 2))>> : X \in {X0}})

\* (a - c)^2 + 4 b^2
Discriminant(G0) ==
  The({The({Add(Mul(d, d), Mul(FromInt(4), Mul(G[2], G[2])))
            : d \in {Sub(G[1], G[3])}})
       : G \in {G0}})

\* lambda = (a + c +- sqrt((a - c)^2 + 4 b^2)) / 2, the larger first
EigValues(G0) ==
  The({The({<<Half(Add(t, sd)), Half(Sub(t, sd))>>
            : t \in {Add(G[1], G[3])}, sd \in {Sqrt(Discriminant(G))}})
       : G \in {G0}})

\* Eigenpairs of the symmetric matrix [[a, b], [b, c]], largest eigenvalue
\* first, unit eigenvectors: (a - lambda) x + b y = 0 gives (b, lambda - a),
\* and the axes when b = 0.
EigSym(G0) ==
  The({The({IF G[2] = Zero
            THEN IF Less(G[1], G[3])
                 THEN <<[val |-> l[1], vec |-> <<Zero, One>>],
                        [val |-> l[2], vec |-> <<One, Zero>>]>>
                 ELSE <<[val |-> l[1], vec |-> <<One, Zero>>],
                        [val |-> l[2], vec |-> <<Zero, One>>]>>
            ELSE <<[val |-> l[1], vec |-> Normalize(<<G[2], Sub(l[1], G[1])>>)],
                   [val |-> l[2], vec |-> Normalize(<<G[2], Sub(l[2], G[1])>>)]>>
            : l \in {EigValues(G)}})
       : G \in {G0}})

\* the eigenvalues of G are numbers of this number system
Representable(G0) ==
  The({\A i \in 1..2 : ~IsNaN(l[i]) : l \in {EigValues(G0)}})

\* the left singular vector of the right singular vector v, singular value s;
\* for s = 0 any unit vector, here the first unit vector
LeftVector(X0, v0, s0) ==
  The({IF s = Zero THEN [r \in 1..Len(X) |-> IF r = 1 THEN One ELSE Zero]
       ELSE [r \in 1..Len(X) |-> Div(Dot(X[r], v), s)]
       : X \in {X0}, v \in {v0}, s \in {s0}})

\* scipy.linalg.svd(X, full_matrices=False) of an n x 2 frame: min(n, 2)
\* singular triples, singular values descending: the square roots of the
\* eigenvalues of X^T X, its eigenvectors with the sign LAPACK gives them
\* (sgn), and the left vectors X v / s.
svd(X0, sgn0) ==
  The({The({[U |-> [i \in 1..Len(S) |-> LeftVector(X0, V[i], S[i])],
             S |-> S, V |-> V]
            : S \in {[i \in 1..Min(Len(X0), 2) |-> Sqrt(E[i].val)]},
              V \in {[i \in 1..Min(Len(X0), 2) |->
                        Scale(FromInt(sgn0), E[i].vec)]}})
       : E \in {EigSym(Gram(X0))}})

\* np.argmax(np.abs(u)): the first index of the largest magnitude
RECURSIVE ArgMaxAbsFrom(_, _, _)
ArgMaxAbsFrom(u0, i0, best0) ==
  The({IF i > Len(u) THEN best
       ELSE ArgMaxAbsFrom(u, i + 1,
                          IF Less(AbsN(u[best]), AbsN(u[i])) THEN i ELSE best)
       : u \in {u0}, i \in {i0}, best \in {best0}})
ArgMaxAbs(u) == ArgMaxAbsFrom(u, 2, 1)

\* sklearn.utils.extmath.svd_flip(u, v), u_based_decision=True: the sign of
\* each pair is that of the largest-magnitude entry of the column of u
svd_flip(usv0) ==
  The({The({[U |-> [i \in 1..Len(usv.S) |->
                      Scale(FromInt(signs[i]), usv.U[i])],
             S |-> usv.S,
             V |-> [i \in 1..Len(usv.S) |->
                      Scale(FromInt(signs[i]), usv.V[i])]]
            : signs \in {[i \in 1..Len(usv.S) |->
                            Sgn(usv.U[i][ArgMaxAbs(usv.U[i])].p)]}})
       : usv \in {usv0}})

\* ------------------------------------------------------------ PCA (pca)
PCA_new(k) ==
  [n_components |-> k, fitted |-> FALSE, mean_ |-> <<>>, components_ |-> <<>>,
   explained_variance_ |-> <<>>, explained_variance_ratio_ |-> <<>>,
   singular_values_ |-> <<>>, n_samples_ |-> 0]

\* np.cov / PCA explained variance use the sample divisor n - 1
CovDdof == 1

Center(X0, mean0) ==
  The({[r \in 1..Len(X) |-> [j \in Cols |-> Sub(X[r][j], mean[j])]]
       : X \in {X0}, mean \in {mean0}})

\* the attributes _fit_full stores: explained variance S^2 / (n - 1), its
\* ratio to the total over all components, and the first k rows
PCA_fitted(k0, n0, mean0, usv0) ==
  The({The({[n_components |-> k, fitted |-> TRUE, mean_ |-> mean,
             components_ |-> SubSeq(usv.V, 1, k),
             explained_variance_ |-> SubSeq(ev, 1, k),
             explained_variance_ratio_ |->
               [i \in 1..k |-> Div(ev[i], SumSeq(ev))],
             singular_values_ |-> SubSeq(usv.S, 1, k),
             n_samples_ |-> n]
            : ev \in {[i \in 1..Len(usv.S) |->
                         Div(Mul(usv.S[i], usv.S[i]), FromInt(n - CovDdof))]}})
       : k \in {k0}, n \in {n0}, mean \in {mean0}, usv \in {usv0}})

\* PCA._fit_full: mean_, svd of the centered frame, svd_flip
PCA_fit_full(k0, X0, sgn0) ==
  The({The({The({[self |-> PCA_fitted(k0, Len(X), mean, usv),
                  usv |-> usv, err |-> ""]
                 : usv \in {svd_flip(svd(Center(X, mean), sgn0))}})
            : mean \in {[j \in Cols |-> np_mean(X, j)]}})
       : X \in {X0}})

\* PCA._fit: validate the frame and n_components, then _fit_full; nothing is
\* stored when the validation raises
PCA_fit_internal(self0, X0, sgn0) ==
  The({IF \/ ~check_array(X)
          \/ ~(0 <= self.n_components /\ self.n_components <= Min(Len(X), 2))
       THEN [self |-> self, usv |-> <<>>, err |-> "ValueError"]
       ELSE PCA_fit_full(self.n_components, X, sgn0)
       : self \in {self0}, X \in {X0}})

\* PCA.fit: self._fit(X); return self
PCA_fit(self0, X0, sgn0) ==
  The({[self |-> f.self, err |-> f.err]
       : f \in {PCA_fit_internal(self0, X0, sgn0)}})

\* the values transform computes from a fitted model
PCA_projected(self0, X0) ==
  The({The({[r \in 1..Len(Xc) |->
               [i \in 1..Len(self.components_) |->
                  Dot(Xc[r], self.components_[i])]]
            : Xc \in {Center(X0, self.mean_)}})
       : self \in {self0}})

\* as PCA_transform, but keeping the mean of X as the model's mean
PCA_transform_keeps_mean(self0, X0) ==
  The({IF ~self.fitted
       THEN [self |-> self, ret |-> <<>>, err |-> "NotFittedError"]
       ELSE IF ~check_array(X)
       THEN [self |-> self, ret |-> <<>>, err |-> "ValueError"]
       ELSE [self |-> [self EXCEPT !.mean_ = [j \in Cols |-> np_mean(X, j)]],
             ret |-> PCA_projected(self, X), err |-> ""]
       : self \in {self0}, X \in {X0}})

\* PCA.transform: check_is_fitted, check_array, (X - mean_) . components_.T;
\* self is only read
PCA_transform(self0, X0) ==
  The({IF ~self.fitted
       THEN [self |-> self, ret |-> <<>>, err |-> "NotFittedError"]
       ELSE IF ~check_array(X)
       THEN [self |-> self, ret |-> <<>>, err |-> "ValueError"]
       ELSE [self |-> self, ret |-> PCA_projected(self, X), err |-> ""]
       : self \in {self0}, X \in {X0}})

\* as PCA_fit_transform, but projecting the frame without centering it
PCA_fit_transform_uncentered(self0, X0, sgn0) ==
  The({The({IF f.err # "" THEN [self |-> f.self, ret |-> <<>>, err |-> f.err]
            ELSE [self |-> f.self,
                  ret |-> [r \in 1..Len(X) |->
                             [i \in 1..Len(f.self.components_) |->
                                Dot(X[r], f.self.components_[i])]],
                  err |-> ""]
            : f \in {PCA_fit_internal(self0, X, sgn0)}})
       : X \in {X0}})

\* PCA.fit_transform: U, S, V = self._fit(X); U[:, :n_components_] * S
PCA_fit_transform(self0, X0, sgn0) ==
  The({The({IF f.err # "" THEN [self |-> f.self, ret |-> <<>>, err |-> f.err]
            ELSE [self |-> f.self,
                  ret |-> [r \in 1..Len(X) |->
                             [i \in 1..f.self.n_components |->
                                Mul(f.usv.U[i][r], f.usv.S[i])]],
                  err |-> ""]
            : f \in {PCA_fit_internal(self0, X, sgn0)}})
       : X \in {X0}})

\* ------------------------------------------- DataFrames of the notebook
\* A cell of a DataFrame: its type t ("str", "int" or "float"), the number x
\* it holds or reads as (NaN for text that is no number, and for np.nan), and
\* the text s when it is text that is no number.  A row of cars.csv has the
\* cells <<cubicinches, cylinders, brand>>: cubicinches is a column of text
\* with ' ' for a missing value, cylinders a column of integers.
StrCell(i) == [t |-> "str", x |-> FromInt(i), s |-> ""]
Blank == [t |-> "str", x |-> NaN, s |-> " "]
Brand == [t |-> "str", x |-> NaN, s |-> "US"]
IntCell(i) == [t |-> "int", x |-> FromInt(i), s |-> ""]
FloatCell(x) == [t |-> "float", x |-> x, s |-> ""]

\* the column read by clean, the column read by to_float, the brand column
CleanCol == 1
FloatCol == 2
BrandCol == 3

\* df[col] = values
SetCol(df0, col0, values0) ==
  The({[r \in 1..Len(df) |-> [df[r] EXCEPT ![col] = values[r]]]
       : df \in {df0}, col \in {col0}, values \in {values0}})

\* as df_copy, but returning the frame itself: new and df are one object
df_copy_alias(h, df) == [heap |-> h, ret |-> df]

\* df.copy(): a new object with the cells of df
df_copy(h, df) == [heap |-> Append(h, h[df]), ret |-> Len(h) + 1]

\* the number a text of digits reads as
RECURSIVE DigitsValue(_)
DigitsValue(s0) ==
  The({IF s = <<>> THEN 0
       ELSE 10 * DigitsValue(SubSeq(s, 1, Len(s) - 1)) + s[Len(s)].x.p
       : s \in {s0}})

\* text.strip() of the concatenated texts of a column
RECURSIVE Stripped(_)
Stripped(s0) ==
  The({IF s = <<>> THEN s
       ELSE IF s[1] = Blank THEN Stripped(Tail(s))
       ELSE IF s[Len(s)] = Blank THEN Stripped(SubSeq(s, 1, Len(s) - 1))
       ELSE s
       : s \in {s0}})

\* Series.mean() of a column.  Of numbers: their mean, NaN skipped.  Of text:
\* pandas 2 raises TypeError; older versions concatenate the texts and read
\* the result as one number (TypeError when it is none), divided by the count.
Series_mean(col0) ==
  The({IF \A r \in 1..Len(col) : col[r].t # "str"
       THEN The({{[err |-> "",
                   val |-> Div(SumSeq([i \in 1..Len(known) |-> known[i].x]),
                               FromInt(Len(known)))]}
                 : known \in {SelectSeq(col, LAMBDA c : ~IsNaN(c.x))}})
       ELSE {[err |-> "TypeError", val |-> NaN]}
            \cup The({IF text # <<>> /\ \A i \in 1..Len(text) : text[i] # Blank
                      THEN {[err |-> "",
                             val |-> Div(FromInt(DigitsValue(text)),
                                         FromInt(Len(col)))]}
                      ELSE {}
                      : text \in {Stripped(col)}})
       : col \in {col0}})

\* Series.replace(' ', np.nan).map(float).replace(np.nan, m) of one cell
Cleaned(c0, m0) ==
  The({IF c = Blank \/ IsNaN(c.x) THEN FloatCell(m) ELSE FloatCell(c.x)
       : c \in {c0}, m \in {m0}})

\* def clean(df): the outcomes (one per outcome of the column's mean)
clean(h0, df0) ==
  The({The({{IF m.err # "" THEN [heap |-> h, ret |-> 0, err |-> m.err]
             ELSE [heap |-> [new.heap EXCEPT ![new.ret] =
                               SetCol(new.heap[new.ret], CleanCol,
                                      [r \in 1..Len(new.heap[new.ret]) |->
                                         Cleaned(new.heap[new.ret][r][CleanCol],
                                                 m.val)])],
                   ret |-> new.ret, err |-> ""]
             : m \in Series_mean(Col(new.heap[new.ret], CleanCol))}
            : new \in {df_copy(h, df0)}})
       : h \in {h0}})

\* float(cell)
to_float_cell(c0) == The({FloatCell(c.x) : c \in {c0}})

\* def to_float(df)
to_float(h0, df0) ==
  The({IF \E r \in 1..Len(new.heap[new.ret]) :
            IsNaN(new.heap[new.ret][r][FloatCol].x)
       THEN [heap |-> h0, ret |-> 0, err |-> "ValueError"]
       ELSE [heap |-> [new.heap EXCEPT ![new.ret] =
                         SetCol(new.heap[new.ret], FloatCol,
                                [r \in 1..Len(new.heap[new.ret]) |->
                                   to_float_cell(new.heap[new.ret][r][FloatCol])])],
             ret |-> new.ret, err |-> ""]
       : new \in {df_copy(h0, df0)}})

\* def drop(df): df.drop(' brand', axis=1), a new frame
drop(h0, df0) ==
  The({[heap |-> Append(h, [r \in 1..Len(h[df0]) |->
                             SubSeq(h[df0][r], 1, BrandCol - 1)]),
        ret |-> Len(h) + 1, err |-> ""]
       : h \in {h0}})

\* the float array sklearn makes of a frame (check_array): ValueError for
\* text, and for a frame that has not the columns of the fit
as_float_array(df0) ==
  The({IF \E r \in 1..Len(df) :
            \/ Len(df[r]) # Cardinality(Cols)
            \/ \E j \in 1..Len(df[r]) : df[r][j].t = "str"
       THEN [err |-> "ValueError", val |-> <<>>]
       ELSE [err |-> "", val |-> [r \in 1..Len(df) |-> [j \in Cols |-> df[r][j].x]]]
       : df \in {df0}})

\* def scale(df, ss): ss.transform(df); the result is a new array
scale(h0, df0, ss0) ==
  The({IF a.err # "" /\ ss0.fitted
       THEN [self |-> ss0, ret |-> <<>>, err |-> a.err]
       ELSE StandardScaler_transform(ss0, a.val)
       : a \in {as_float_array(h0[df0])}})

\* --------------------------------------------------------------- state
\* ss and pca share no state: a run of calls is made on one of the two objects
\* (client); a run that uses both is two such runs side by side.
VARIABLES
  cars,        \* the records read from cars.csv (feature columns)
  lapack,      \* the sign LAPACK gives to singular vectors
  client,      \* the object this run of calls is made on: "ss" or "pca"
               \* ("notebook": the run of the notebook's own cells)
  ss,          \* the StandardScaler object
  pca,         \* the PCA object
  call,        \* the last call made on ss or pca, with what it returned
  ssFitData,   \* the frame of the last fit of ss that returned
  pcaFitData,  \* the frame of the last fit of pca that returned
  memo,        \* what transform returned for X_test since the object's last fit
  X_tr_sc,     \* notebook variables of the "PCA by hand" cells
  cov_mat,
  eig,
  pcabh,
  byhand,
  v,           \* notebook variables of the "In Code" cells: v, q = eig(A)
  q,
  heap,        \* the DataFrame objects; a frame variable holds an index
  X_test,      \* notebook variables of the test-set preparation cells
  test_cleaned,
  test_floated,
  test_dropped,
  test_scaled,
  X_train_new, \* notebook variables of the sklearn PCA cells
  X_test_new,
  X_transformed,
  y_new,
  prep         \* the last of these cells that ran ("error": a cell raised)

vars == <<cars, lapack, client, ss, pca, call, ssFitData, pcaFitData, memo,
          X_tr_sc, cov_mat, eig, pcabh, byhand, v, q, heap, X_test,
          test_cleaned, test_floated, test_dropped, test_scaled, X_train_new,
          X_test_new, X_transformed, y_new, prep>>

\* train_test_split(cars, random_state = 20): test_size 0.25 rounded up
n_test(N) == (N + 3) \div 4
X_train_of(c0) ==
  The({map_float(SubSeq(c, 1, Len(c) - n_test(Len(c)))) : c \in {c0}})
X_test_of(c0) ==
  The({map_float(SubSeq(c, Len(c) - n_test(Len(c)) + 1, Len(c))) : c \in {c0}})

\* cars['mpg']: the label of a record, named by the record's number
mpg(c) == [i \in 1..Len(c) |-> i]
y_train_of(c0) == The({SubSeq(mpg(c), 1, Len(c) - n_test(Len(c))) : c \in {c0}})
y_test_of(c0) ==
  The({SubSeq(mpg(c), Len(c) - n_test(Len(c)) + 1, Len(c)) : c \in {c0}})

\* the frame X_test as read from cars.csv, with ' ' in the cubicinches cell
\* of the records of `blanks`
raw_X_test_of(c0, blanks) ==
  The({[r \in 1..n_test(Len(c)) |->
          <<IF r \in blanks THEN Blank
            ELSE StrCell(c[Len(c) - n_test(Len(c)) + r][CleanCol]),
            IntCell(c[Len(c) - n_test(Len(c)) + r][FloatCol]),
            Brand>>]
       : c \in {c0}})
\* the records of X_test that may miss the value (a record that misses it is
\* listed in cars with the value 0)
BlankSets(c0) ==
  The({{B \in SUBSET (1..n_test(Len(c))) :
          \A r \in B : c[Len(c) - n_test(Len(c)) + r][CleanCol] = 0}
       : c \in {c0}})

Frames == {"X_train", "X_test", "empty"}
Data(a) == IF a = "X_train" THEN X_train_of(cars)
           ELSE IF a = "X_test" THEN X_test_of(cars)
           ELSE <<>>

CenteredGram(X0) ==
  The({Gram(Center(X, [j \in Cols |-> np_mean(X, j)])) : X \in {X0}})

Rows == [Cols -> 0..MaxVal]
\* records in non-decreasing order: one frame per collection of records
RowLeq(r, s) == r[1] < s[1] \/ (r[1] = s[1] /\ r[2] <= s[2])
Ordered(c) == \A i \in 1..(Len(c) - 1) : RowLeq(c[i], c[i + 1])
CarsSets == UNION {{c \in [1..N -> Rows] : Ordered(c)} : N \in 3..MaxRows}
Splittable(c0) ==
  The({/\ Representable(CenteredGram(X_train_of(c)))
       /\ Representable(CenteredGram(X_test_of(c))) : c \in {c0}})

NoCall == [op |-> "", arg |-> "", ret |-> <<>>, err |-> ""]

\* the state after reading cars.csv, splitting it and constructing ss and
\* pca, for a run by one of `clients`
InitState(clients, withBlanks) ==
  /\ cars \in {c \in CarsSets : Splittable(c)}
  /\ lapack \in {1, -1}
  /\ client \in clients
  /\ ss = Unfitted
  /\ pca \in {PCA_new(k) : k \in 0..3}
  /\ call = NoCall
  /\ ssFitData = "none"
  /\ pcaFitData = "none"
  /\ memo = [ss |-> <<>>, pca |-> <<>>]
  /\ X_tr_sc = <<>>
  /\ cov_mat = <<>>
  /\ eig = <<>>
  /\ pcabh = <<>>
  /\ byhand = "start"
  /\ v = <<>>
  /\ q = <<>>
  /\ heap \in {<<raw_X_test_of(cars, B)>> :
                 B \in IF withBlanks THEN BlankSets(cars) ELSE {{}}}
  /\ X_test = 1
  /\ test_cleaned = 0
  /\ test_floated = 0
  /\ test_dropped = 0
  /\ test_scaled = <<>>
  /\ X_train_new = <<>>
  /\ X_test_new = <<>>
  /\ X_transformed = <<>>
  /\ y_new = <<>>
  /\ prep = "start"

\* the calls of a client are made on frames that are already cleaned
Init == InitState({"ss", "pca"}, FALSE)

\* the notebook's own cells read the frames with their missing values
InitNotebook == InitState({"notebook"}, TRUE)

ByHandVars == <<X_tr_sc, cov_mat, eig, pcabh, byhand>>
\* the variables of the other notebook cells
PrepVars == <<heap, X_test, test_cleaned, test_floated, test_dropped,
              test_scaled, X_train_new, X_test_new, X_transformed, y_new, prep>>
NotebookVars == <<v, q, PrepVars>>

\* ss.fit(a)
ss_fit(a) ==
  /\ client = "ss"
  /\ \E f \in {StandardScaler_fit(ss, Data(a))} :
        /\ ss' = f.self
        /\ call' = [op |-> "ss.fit", arg |-> a, ret |-> <<>>, err |-> f.err]
        /\ ssFitData' = IF f.err = "" THEN a ELSE ssFitData
        /\ memo' = [memo EXCEPT !.ss = <<>>]
        /\ UNCHANGED <<cars, lapack, client, pca, pcaFitData, ByHandVars, NotebookVars>>

\* scale(df, ss): ss.transform(a)
ss_transform(a) ==
  /\ client = "ss"
  /\ \E t \in {StandardScaler_transform(ss, Data(a))} :
        /\ ss' = t.self
        /\ call' = [op |-> "ss.transform", arg |-> a, ret |-> t.ret, err |-> t.err]
        /\ memo' = IF a = "X_test" /\ t.err = "" /\ memo.ss = <<>>
                   THEN [memo EXCEPT !.ss = t.ret] ELSE memo
        /\ UNCHANGED <<cars, lapack, client, pca, ssFitData, pcaFitData, ByHandVars, NotebookVars>>

\* ss.fit_transform(a)
ss_fit_transform(a) ==
  /\ client = "ss"
  /\ \E f \in {StandardScaler_fit_transform(ss, Data(a))} :
        /\ ss' = f.self
        /\ call' = [op |-> "ss.fit_transform", arg |-> a, ret |-> f.ret,
                    err |-> f.err]
        /\ ssFitData' = IF f.err = "" THEN a ELSE ssFitData
        /\ memo' = [memo EXCEPT !.ss = <<>>]
        /\ UNCHANGED <<cars, lapack, client, pca, pcaFitData, ByHandVars, NotebookVars>>

\* pca.fit(a)
pca_fit(a) ==
  /\ client = "pca"
  /\ \E f \in {PCA_fit(pca, Data(a), lapack)} :
        /\ pca' = f.self
        /\ call' = [op |-> "pca.fit", arg |-> a, ret |-> <<>>, err |-> f.err]
        /\ pcaFitData' = IF f.err = "" THEN a ELSE pcaFitData
        /\ memo' = [memo EXCEPT !.pca = <<>>]
        /\ UNCHANGED <<cars, lapack, client, ss, ssFitData, ByHandVars, NotebookVars>>

\* pca.transform(a)
pca_transform(a) ==
  /\ client = "pca"
  /\ \E t \in {PCA_transform(pca, Data(a))} :
        /\ call' = [op |-> "pca.transform", arg |-> a, ret |-> t.ret,
                    err |-> t.err]
        /\ pca' = t.self
        /\ memo' = IF a = "X_test" /\ t.err = "" /\ memo.pca = <<>>
                   THEN [memo EXCEPT !.pca = t.ret] ELSE memo
        /\ UNCHANGED <<cars, lapack, client, ss, ssFitData, pcaFitData, ByHandVars, NotebookVars>>

\* pca.fit_transform(a)
pca_fit_transform(a) ==
  /\ client = "pca"
  /\ \E f \in {PCA_fit_transform(pca, Data(a), lapack)} :
        /\ pca' = f.self
        /\ call' = [op |-> "pca.fit_transform", arg |-> a, ret |-> f.ret,
                    err |-> f.err]
        /\ pcaFitData' = IF f.err = "" THEN a ELSE pcaFitData
        /\ memo' = [memo EXCEPT !.pca = <<>>]
        /\ UNCHANGED <<cars, lapack, client, ss, ssFitData, ByHandVars, NotebookVars>>

\* ------------------------------------------------ "PCA by hand" cells
\* np.cov(X, rowvar=False): means recomputed, divisor n - 1
np_cov(X0) ==
  The({The({[i \in Cols |-> [j \in Cols |->
               Div(Dot(Col(Xc, i), Col(Xc, j)), FromInt(Len(X) - CovDdof))]]
            : Xc \in {Center(X, [j \in Cols |-> np_mean(X, j)])}})
       : X \in {X0}})

\* as np_linalg_eig, but with the eigenvectors left in the solver's own order
\* while the eigenvalues are returned in the order `order`
np_linalg_eig_unpaired(A, order, sgn) ==
  The({[vals |-> [c \in 1..2 |-> E[order[c]].val],
        vecs |-> [r \in 1..2 |-> [c \in 1..2 |->
                    Mul(FromInt(sgn), E[c].vec[r])]]]
       : E \in {EigSym(<<A[1][1], A[1][2], A[2][2]>>)}})

\* np.linalg.eig(A) of a symmetric A: the eigenvalues in the order `order`
\* (eig promises none) and the unit eigenvectors as the columns of vecs
np_linalg_eig(A, order, sgn) ==
  The({[vals |-> [c \in 1..2 |-> E[order[c]].val],
        vecs |-> [r \in 1..2 |-> [c \in 1..2 |->
                    Mul(FromInt(sgn), E[order[c]].vec[r])]]]
       : E \in {EigSym(<<A[1][1], A[1][2], A[2][2]>>)}})

\* the number of leading columns of eigvecs kept in pcabh (3 of the 6
\* columns in the notebook, 1 of the 2 columns here)
ByHandK == 1

\* np.vstack([row[:k].reshape(1, k) for row in eigvecs])
first_columns(eigvecs, k) ==
  [r \in 1..Len(eigvecs) |-> SubSeq(eigvecs[r], 1, k)]

\* X_tr_sc = ss.fit_transform(X_train.drop(' brand', axis=1))
cell_X_tr_sc ==
  /\ byhand = "start"
  /\ \E f \in {StandardScaler_fit_transform(ss, Data("X_train"))} :
     /\ ss' = f.self
     /\ call' = [op |-> "ss.fit_transform", arg |-> "X_train", ret |-> f.ret,
                 err |-> f.err]
     /\ ssFitData' = "X_train"
     /\ memo' = [memo EXCEPT !.ss = <<>>]
     /\ X_tr_sc' = f.ret
     /\ byhand' = "scaled"
     /\ UNCHANGED <<cars, lapack, client, pca, pcaFitData, cov_mat, eig, pcabh, NotebookVars>>

\* cov_mat = np.cov(X_tr_sc, rowvar=False)
cell_cov_mat ==
  /\ byhand = "scaled"
  /\ cov_mat' = np_cov(X_tr_sc)
  /\ byhand' = "cov"
  /\ UNCHANGED <<cars, lapack, client, ss, pca, call, ssFitData, pcaFitData, memo,
                 X_tr_sc, eig, pcabh, NotebookVars>>

\* eigvals, eigvecs = np.linalg.eig(cov_mat)
cell_eig ==
  /\ byhand = "cov"
  /\ Representable(<<cov_mat[1][1], cov_mat[1][2], cov_mat[2][2]>>)
  /\ \E order \in {<<1, 2>>, <<2, 1>>} :
       eig' = np_linalg_eig(cov_mat, order, lapack)
  /\ byhand' = "eig"
  /\ UNCHANGED <<cars, lapack, client, ss, pca, call, ssFitData, pcaFitData, memo,
                 X_tr_sc, cov_mat, pcabh, NotebookVars>>

\* pcabh = np.vstack([row[:3].reshape(1, 3) for row in eigvecs])
cell_pcabh ==
  /\ byhand = "eig"
  /\ pcabh' = first_columns(eig.vecs, ByHandK)
  /\ byhand' = "pcabh"
  /\ UNCHANGED <<cars, lapack, client, ss, pca, call, ssFitData, pcaFitData, memo,
                 X_tr_sc, cov_mat, eig, NotebookVars>>

\* A = np.array([[5, 3], [3, 5]])
A == <<<<FromInt(5), FromInt(3)>>, <<FromInt(3), FromInt(5)>>>>

\* v, q = np.linalg.eig(A)
cell_v_q ==
  /\ v = <<>>
  /\ \E order \in {<<1, 2>>, <<2, 1>>} :
       \E e \in {np_linalg_eig(A, order, lapack)} :
         /\ v' = e.vals
         /\ q' = e.vecs
  /\ UNCHANGED <<cars, lapack, client, ss, pca, call, ssFitData, pcaFitData, memo,
                 ByHandVars, PrepVars>>

\* np.diag(v)
np_diag(d0) ==
  The({[r \in 1..Len(d) |-> [c \in 1..Len(d) |-> IF r = c THEN d[r] ELSE Zero]]
       : d \in {d0}})
\* M.T
Transpose(M0) ==
  The({[c \in 1..Len(M[1]) |-> [r \in 1..Len(M) |-> M[r][c]]] : M \in {M0}})
\* M.dot(N)
MatMul(M0, N0) ==
  The({The({[r \in 1..Len(M) |-> [c \in 1..Len(Nt) |-> Dot(M[r], Nt[c])]]
            : Nt \in {Transpose(N0)}})
       : M \in {M0}})
\* q.dot(np.diag(v)).dot(q.T)
Reconstructed(v0, q0) ==
  The({MatMul(MatMul(qq, np_diag(v0)), Transpose(qq)) : qq \in {q0}})

NextByHand ==
  \/ cell_v_q
  \/ cell_X_tr_sc
  \/ cell_cov_mat
  \/ cell_eig
  \/ cell_pcabh

SpecByHand == Init /\ [][NextByHand]_vars

\* ------------------------------ test-set preparation and sklearn PCA cells
\* every entry of the array is a number of this number system
Exact(M) == \A r \in 1..Len(M) : \A i \in 1..Len(M[r]) : ~IsNaN(M[r][i])

\* as np_vstack, but with the second block on top
np_vstack_swapped(a, b) == b \o a

\* np.vstack([a, b])
np_vstack(a, b) == a \o b

\* np.concatenate([a, b])
np_concatenate(a, b) == a \o b

\* test_cleaned = clean(X_test)
cell_test_cleaned ==
  /\ byhand = "scaled"
  /\ prep = "start"
  /\ \E c \in clean(heap, X_test) :
       /\ heap' = c.heap
       /\ test_cleaned' = c.ret
       /\ prep' = IF c.err = "" THEN "cleaned" ELSE "error"
  /\ UNCHANGED <<cars, lapack, client, ss, pca, call, ssFitData, pcaFitData, memo,
                 ByHandVars, v, q, X_test, test_floated, test_dropped,
                 test_scaled, X_train_new, X_test_new, X_transformed, y_new>>

\* test_floated = to_float(test_cleaned)
cell_test_floated ==
  /\ prep = "cleaned"
  /\ \E f \in {to_float(heap, test_cleaned)} :
       /\ heap' = f.heap
       /\ test_floated' = f.ret
       /\ prep' = IF f.err = "" THEN "floated" ELSE "error"
  /\ UNCHANGED <<cars, lapack, client, ss, pca, call, ssFitData, pcaFitData, memo,
                 ByHandVars, v, q, X_test, test_cleaned, test_dropped,
                 test_scaled, X_train_new, X_test_new, X_transformed, y_new>>

\* test_dropped = drop(test_floated)
cell_test_dropped ==
  /\ prep = "floated"
  /\ \E d \in {drop(heap, test_floated)} :
       /\ heap' = d.heap
       /\ test_dropped' = d.ret
       /\ prep' = "dropped"
  /\ UNCHANGED <<cars, lapack, client, ss, pca, call, ssFitData, pcaFitData, memo,
                 ByHandVars, v, q, X_test, test_cleaned, test_floated,
                 test_scaled, X_train_new, X_test_new, X_transformed, y_new>>

\* test_scaled = scale(test_dropped, ss)
cell_test_scaled ==
  /\ prep = "dropped"
  /\ \E t \in {scale(heap, test_dropped, ss)} :
       /\ Exact(t.ret)
       /\ ss' = t.self
       /\ test_scaled' = t.ret
       /\ call' = [op |-> "ss.transform", arg |-> "test_dropped", ret |-> t.ret,
                   err |-> t.err]
       /\ prep' = IF t.err = "" THEN "scaled" ELSE "error"
  /\ UNCHANGED <<cars, lapack, client, pca, ssFitData, pcaFitData, memo,
                 ByHandVars, v, q, heap, X_test, test_cleaned, test_floated,
                 test_dropped, X_train_new, X_test_new, X_transformed, y_new>>

\* X_train_new = pca.fit_transform(X_tr_sc)
cell_X_train_new ==
  /\ prep = "scaled"
  /\ Representable(CenteredGram(X_tr_sc))
  /\ \E f \in {PCA_fit_transform(pca, X_tr_sc, lapack)} :
       /\ Exact(f.ret)
       /\ pca' = f.self
       /\ X_train_new' = f.ret
       /\ call' = [op |-> "pca.fit_transform", arg |-> "X_tr_sc", ret |-> f.ret,
                   err |-> f.err]
       /\ pcaFitData' = IF f.err = "" THEN "X_tr_sc" ELSE pcaFitData
       /\ memo' = [memo EXCEPT !.pca = <<>>]
       /\ prep' = IF f.err = "" THEN "train_new" ELSE "error"
  /\ UNCHANGED <<cars, lapack, client, ss, ssFitData, ByHandVars, v, q, heap,
                 X_test, test_cleaned, test_floated, test_dropped, test_scaled,
                 X_test_new, X_transformed, y_new>>

\* X_test_new = pca.transform(test_scaled), the cell before the stacking and
\* the same cell after it
cell_X_test_new ==
  /\ prep \in {"train_new", "stacked"}
  /\ \E t \in {PCA_transform(pca, test_scaled)} :
       /\ Exact(t.ret)
       /\ pca' = t.self
       /\ X_test_new' = t.ret
       /\ call' = [op |-> "pca.transform", arg |-> "test_scaled", ret |-> t.ret,
                   err |-> t.err]
       /\ prep' = IF t.err # "" THEN "error"
                  ELSE IF prep = "train_new" THEN "test_new" ELSE "done"
  /\ UNCHANGED <<cars, lapack, client, ss, ssFitData, pcaFitData, memo,
                 ByHandVars, v, q, heap, X_test, test_cleaned, test_floated,
                 test_dropped, test_scaled, X_train_new, X_transformed, y_new>>

\* X_transformed = np.vstack([X_train_new, X_test_new])
\* y_new = np.concatenate([y_train, y_test])
cell_X_transformed ==
  /\ prep = "test_new"
  /\ X_transformed' = np_vstack(X_train_new, X_test_new)
  /\ y_new' = np_concatenate(y_train_of(cars), y_test_of(cars))
  /\ prep' = "stacked"
  /\ UNCHANGED <<cars, lapack, client, ss, pca, call, ssFitData, pcaFitData, memo,
                 ByHandVars, v, q, heap, X_test, test_cleaned, test_floated,
                 test_dropped, test_scaled, X_train_new, X_test_new>>

NextNotebook ==
  \/ cell_X_tr_sc
  \/ cell_test_cleaned
  \/ cell_test_floated
  \/ cell_test_dropped
  \/ cell_test_scaled
  \/ cell_X_train_new
  \/ cell_X_test_new
  \/ cell_X_transformed

SpecNotebook == InitNotebook /\ [][NextNotebook]_vars

Next ==
  \/ \E a \in Frames : ss_fit(a)
  \/ \E a \in Frames \ {"empty"} : ss_transform(a)
  \/ \E a \in Frames : ss_fit_transform(a)
  \/ \E a \in Frames : pca_fit(a)
  \/ \E a \in Frames \ {"empty"} : pca_transform(a)
  \/ \E a \in Frames : pca_fit_transform(a)

Spec == Init /\ [][Next]_vars

\* ---------------------------------------------------------------- claims
TransformOps == {"ss.transform", "pca.transform"}
Returned(op) == call.op = op /\ call.err = ""

\* C1: transform uses the statistics stored by the earlier fit, never
\* statistics of the frame it is given: after ss.transform(T) that follows a
\* fit on F, the result is (T - mean(F)) / scale(F) and ss still holds the
\* statistics of F; after pca.transform(T) the result is (T - mean(F)) times
\* the stored components and pca still holds the mean of F.
C1_TransformUsesFitStatistics ==
  /\ Returned("ss.transform") =>
       \A T \in {Data(call.arg)},
          m \in {[j \in Cols |-> np_mean(Data(ssFitData), j)]},
          sd \in {[j \in Cols |->
                    handle_zeros_in_scale(
                      Sqrt(np_var(Data(ssFitData), j, ScalerDdof)))]} :
          /\ ss.mean_ = m
          /\ ss.scale_ = sd
          /\ call.ret = [r \in 1..Len(T) |->
                           [j \in Cols |-> Div(Sub(T[r][j], m[j]), sd[j])]]
  /\ Returned("pca.transform") =>
       \A T \in {Data(call.arg)},
          m \in {[j \in Cols |-> np_mean(Data(pcaFitData), j)]} :
          /\ pca.mean_ = m
          /\ call.ret = [r \in 1..Len(T) |->
                           [i \in 1..Len(pca.components_) |->
                              Dot([j \in Cols |-> Sub(T[r][j], m[j])],
                                  pca.components_[i])]]

\* C1 witness: ss transformed the test frame after a fit on the training
\* frame, whose means differ from the test frame's
C1_Witness ==
  /\ Returned("ss.transform")
  /\ call.arg = "X_test"
  /\ ssFitData = "X_train"
  /\ \E j \in Cols : np_mean(Data("X_test"), j) # np_mean(Data("X_train"), j)

\* C2: a transform issued on an object on which no fit has returned yet fails
\* with NotFittedError and returns nothing; a transform that returns follows a
\* fit of the same object.
C2_TransformNeedsFit ==
  /\ (call.op = "ss.transform" /\ ssFitData = "none") =>
       (call.err = "NotFittedError" /\ call.ret = <<>>)
  /\ (call.op = "pca.transform" /\ pcaFitData = "none") =>
       (call.err = "NotFittedError" /\ call.ret = <<>>)
  /\ Returned("ss.transform") => ssFitData # "none"
  /\ Returned("pca.transform") => pcaFitData # "none"

\* C2 witness: a transform of a real frame was refused on an unfitted scaler
C2_Witness ==
  /\ call.op = "ss.transform"
  /\ call.arg = "X_train"
  /\ ssFitData = "none"
  /\ call.err = "NotFittedError"

\* C3: the columns kept in pcabh are the eigenvectors of the largest
\* eigenvalues, in descending order of eigenvalue, whatever order
\* np.linalg.eig returned the eigenpairs in.
C3_ByHandTakesLargest ==
  byhand = "pcabh" =>
    \A c \in 1..ByHandK : \A c2 \in (c + 1)..2 :
      ~Less(eig.vals[c], eig.vals[c2])

\* an entry of the largest magnitude of v is positive
LargestEntryPositive(w) ==
  \E j \in 1..Len(w) :
    /\ w[j].p > 0
    /\ \A l \in 1..Len(w) : ~Less(AbsN(w[j]), AbsN(w[l]))

\* C4: every component vector stored by a fit has its largest-magnitude entry
\* positive (stated for the components of a non-zero singular value, whose
\* direction the frame determines).
C4_LargestEntryPositive ==
  pca.fitted =>
    \A i \in 1..Len(pca.components_) :
      pca.singular_values_[i] # Zero
        => LargestEntryPositive(pca.components_[i])

\* C5: a fit of the scaler on a frame with a constant column fails with
\* DegenerateColumnError and returns nothing.
C5_ConstantColumnRejected ==
  ( /\ call.op \in {"ss.fit", "ss.fit_transform"}
    /\ check_array(Data(call.arg))
    /\ \E j \in Cols : np_var(Data(call.arg), j, ScalerDdof) = Zero )
  => (call.err = "DegenerateColumnError" /\ call.ret = <<>>)

\* C6: a fit that fails leaves the object's fitted model exactly as it was and
\* returns nothing; a fit that returns replaces the model by that of its frame.
C6_FitIsTransactional ==
  [][ /\ (call'.op \in {"ss.fit", "ss.fit_transform"} /\ call'.err # "")
          => (ss' = ss /\ call'.ret = <<>>)
      /\ (call'.op \in {"pca.fit", "pca.fit_transform"} /\ call'.err # "")
          => (pca' = pca /\ call'.ret = <<>>)
      /\ (call'.op \in {"ss.fit", "ss.fit_transform"} /\ call'.err = "")
          => ss' = StandardScaler_partial_fit(Data(call'.arg))
      /\ (call'.op \in {"pca.fit", "pca.fit_transform"} /\ call'.err = "")
          => pca' = PCA_fit(PCA_new(pca.n_components), Data(call'.arg),
                            lapack).self ]_vars

\* C7: fit_transform(D) leaves the model that fit(D) leaves and returns what
\* transform(D) returns after that fit (or fails as fit(D) fails), for the
\* scaler and for the PCA object.
C7_FitTransformIsFitThenTransform ==
  [][ /\ call'.op = "ss.fit_transform" =>
           \A f \in {StandardScaler_fit(ss, Data(call'.arg))} :
             \A t \in {StandardScaler_transform(f.self, Data(call'.arg))} :
               IF f.err # ""
               THEN ss' = f.self /\ call'.err = f.err /\ call'.ret = <<>>
               ELSE ss' = t.self /\ call'.err = t.err /\ call'.ret = t.ret
      /\ call'.op = "pca.fit_transform" =>
           \A f \in {PCA_fit(pca, Data(call'.arg), lapack)} :
             \A t \in {PCA_transform(f.self, Data(call'.arg))} :
               IF f.err # ""
               THEN pca' = f.self /\ call'.err = f.err /\ call'.ret = <<>>
               ELSE pca' = t.self /\ call'.err = t.err /\ call'.ret = t.ret
    ]_vars

\* C7 witness: pca.fit_transform returned the projection of a training frame
\* whose column means are not zero
C7_Witness ==
  /\ Returned("pca.fit_transform")
  /\ call.arg = "X_train"
  /\ \E j \in Cols : pca.mean_[j] # Zero
  /\ \E r \in 1..Len(call.ret) : call.ret[r][1] # Zero

\* C8: a transform leaves both fitted models unchanged, and a transform of the
\* test frame returns exactly what the first transform of the test frame
\* returned since the object's last fit, whatever transforms came in between.
C8_TransformDeterministic ==
  [][ /\ call'.op \in TransformOps => (ss' = ss /\ pca' = pca)
      /\ ( /\ call'.op = "ss.transform" /\ call'.arg = "X_test"
           /\ call'.err = "" /\ memo.ss # <<>> ) => call'.ret = memo.ss
      /\ ( /\ call'.op = "pca.transform" /\ call'.arg = "X_test"
           /\ call'.err = "" /\ memo.pca # <<>> ) => call'.ret = memo.pca
    ]_vars

\* C8 witness: after pca.transform of the test frame, pca transformed another
\* frame, with the test frame's result still remembered
C8_Witness ==
  /\ Returned("pca.transform")
  /\ call.arg = "X_train"
  /\ memo.pca # <<>>
  /\ call.ret # memo.pca

\* C9: the scaler and np.cov use the same divisor, so the covariance matrix of
\* the standardized training frame has 1 on the diagonal for every column that
\* is not constant.
C9_SameDivisor ==
  byhand \in {"cov", "eig", "pcabh"} =>
    \A j \in Cols : ss.var_[j] # Zero => cov_mat[j][j] = One

\* C10: the components of a fitted model are orthonormal: each has norm 1, two
\* different components have dot product 0.
C10_ComponentsOrthonormal ==
  pca.fitted =>
    \A i, j \in 1..Len(pca.components_) :
      Dot(pca.components_[i], pca.components_[j])
        = IF i = j THEN One ELSE Zero

\* C10 witness: a fitted model with two components that are not axes
C10_Witness ==
  /\ pca.fitted
  /\ Len(pca.components_) = 2
  /\ \A i \in 1..2 : \A j \in Cols : pca.components_[i][j] # Zero

\* an eigenvalue clamped to >= 0
Clamped(x0) == The({IF Less(x, Zero) THEN Zero ELSE x : x \in {x0}})

\* C11: the explained_variance_ratio_ of each stored component is its
\* eigenvalue (clamped to >= 0) of the covariance matrix of the fit frame
\* divided by the sum of both eigenvalues; every ratio is a number in [0, 1];
\* with k = d = 2 the ratios sum to 1.
C11_ExplainedVarianceRatio ==
  (pca.fitted /\ pcaFitData # "none") =>
    \A cov \in {np_cov(Data(pcaFitData))} :
      \A l \in {EigValues(<<cov[1][1], cov[1][2], cov[2][2]>>)} :
        /\ \A i \in 1..Len(pca.components_) :
             \A r \in {pca.explained_variance_ratio_[i]} :
               /\ r = Div(Clamped(l[i]), Add(l[1], l[2]))
               /\ ~IsNaN(r)
               /\ ~Less(r, Zero)
               /\ ~Less(One, r)
        /\ Len(pca.components_) = 2 =>
             SumSeq(pca.explained_variance_ratio_) = One

\* u and w are parallel (2-vectors)
Parallel(u, w) == Sub(Mul(u[1], w[2]), Mul(u[2], w[1])) = Zero

\* C12: for A = [[5,3],[3,5]] np.linalg.eig returns exactly two eigenpairs
\* with the eigenvalues {2, 8}; the eigenvector returned with 8 is parallel
\* to (1, 1), the one returned with 2 is parallel to (-1, 1), A.x = lambda.x
\* for each pair, and q.diag(v).q^T is A.
C12_GoldenFixture ==
  v # <<>> =>
    /\ Len(v) = 2
    /\ Len(q) = 2
    /\ {v[1], v[2]} = {FromInt(2), FromInt(8)}
    /\ \A c \in 1..2 :
         \A x \in {Col(q, c)} :
           /\ x # <<Zero, Zero>>
           /\ v[c] = FromInt(8) => Parallel(x, <<One, One>>)
           /\ v[c] = FromInt(2) => Parallel(x, <<FromInt(-1), One>>)
           /\ \A r \in 1..2 : Dot(A[r], x) = Mul(v[c], x[r])
    /\ Reconstructed(v, q) = A

\* C12 witness: the solver returned the smaller eigenvalue first
C12_Witness ==
  /\ v = <<FromInt(2), FromInt(8)>>
  /\ Col(q, 1) \notin {<<Zero, Zero>>, Col(q, 2)}

\* C13: a fit of pca with n_components outside [1, d] (d = 2 here, so 0 and
\* d + 1 = 3) fails and stores no model, and every stored model has
\* 1 <= k <= d components.  (The failure the code has for this is the
\* ValueError of the n_components check; any failure is accepted here.)
C13_ComponentCountValidated ==
  /\ ( /\ call.op \in {"pca.fit", "pca.fit_transform"}
       /\ pca.n_components \notin 1..Cardinality(Cols) )
     => (call.err # "" /\ call.ret = <<>> /\ ~pca.fitted)
  /\ pca.fitted =>
       /\ pca.n_components \in 1..Cardinality(Cols)
       /\ Len(pca.components_) = pca.n_components

\* the test-set preparation cells
PrepCells == {"start", "cleaned", "floated", "dropped"}

\* C14: a step of test_scaled = scale(drop(to_float(clean(X_test))), ss)
\* leaves every frame that exists unchanged (X_test and the intermediate
\* frames made so far), leaves the frame variables assigned so far and the
\* scaler ss unchanged, and what the step returns is a new frame.
C14_PrepLeavesInputsUnchanged ==
  [][ (prep \in PrepCells /\ prep' # prep) =>
        /\ Len(heap') >= Len(heap)
        /\ \A r \in 1..Len(heap) : heap'[r] = heap[r]
        /\ X_test' = X_test
        /\ prep # "start" => test_cleaned' = test_cleaned
        /\ prep \notin {"start", "cleaned"} => test_floated' = test_floated
        /\ prep = "dropped" => test_dropped' = test_dropped
        /\ ss' = ss
        /\ prep' = "cleaned" => test_cleaned' = Len(heap) + 1
        /\ prep' = "floated" => test_floated' = Len(heap) + 1
        /\ prep' = "dropped" => test_dropped' = Len(heap) + 1
    ]_vars

\* C14 witness: test_scaled was computed from a test frame with a missing
\* value, which clean filled in its copy and X_test still has
C14_Witness ==
  /\ prep = "scaled"
  /\ test_scaled # <<>>
  /\ \E r \in 1..Len(heap[X_test]) :
       /\ heap[X_test][r][CleanCol] = Blank
       /\ heap[test_cleaned][r][CleanCol].t = "float"
       /\ ~IsNaN(heap[test_cleaned][r][CleanCol].x)

\* the number of training records
n_train == Len(cars) - n_test(Len(cars))

\* the prepared features of the record with label id: its row of X_train,
\* or its row of test_dropped
PreparedRow(id) ==
  IF id <= n_train THEN X_train_of(cars)[id]
  ELSE as_float_array(heap[test_dropped]).val[id - n_train]

\* the projection of the record with label id: its prepared features,
\* standardized by ss and transformed by pca
ProjectionOf(id) ==
  PCA_projected(pca, StandardScaler_scaled(ss, <<PreparedRow(id)>>))[1]

\* C15: X_transformed and y_new have n_train + n_test entries, the labels of
\* the training records followed by those of the test records, and row i of
\* X_transformed is the projection of the record whose label is y_new[i];
\* after X_test_new is computed again it still is the test block of
\* X_transformed.
C15_RowsAlignedWithLabels ==
  prep \in {"stacked", "done"} =>
    /\ Len(X_transformed) = n_train + n_test(Len(cars))
    /\ Len(y_new) = n_train + n_test(Len(cars))
    /\ y_new = y_train_of(cars) \o y_test_of(cars)
    /\ \A i \in 1..Len(X_transformed) :
         X_transformed[i] = ProjectionOf(y_new[i])
    /\ prep = "done" =>
         X_test_new = SubSeq(X_transformed, n_train + 1, Len(X_transformed))

\* C15 witness: the combined data after X_test_new was computed again, with
\* a first training row and a last test row that differ
C15_Witness ==
  /\ prep = "done"
  /\ pca.n_components >= 1
  /\ X_transformed[1] # X_transformed[Len(X_transformed)]
  /\ X_train_new[1] # X_test_new[Len(X_test_new)]

====
